---- MODULE Spec2Model ----
(***************************************************************************)
(* Model of the tools/cases content pipeline of backend/routers/insights.py *)
(* (ContentCache, the user_daily lock files, get_ai_tools / get_ai_cases)   *)
(* and of the Tavily key rotator of backend/services/ai_processor.py.       *)
(*                                                                           *)
(* The endpoints are asyncio coroutines: a request runs without             *)
(* interruption from its entry to its first await, which is the Tavily      *)
(* search inside search_and_recommend_tools / _cases, and again from the    *)
(* completion of the producer to its return.  The two awaits of the         *)
(* producer (search, then LLM completion) touch no shared state between     *)
(* them, so a request in flight has the single position "fetching".         *)
(*                                                                           *)
(* The module also models the news endpoints generate_daily_news and        *)
(* generate_general_news of insights.py, with the checks of                 *)
(* backend/services/content_safety.py that stand in front of them.          *)
(***************************************************************************)
EXTENDS Integers, Sequences, FiniteSets, TLC

(* ---- program constants ------------------------------------------------ *)
DISPLAY_COUNT == 6
FETCH_COUNT == 18
CACHE_TTL == 1800
FALLBACK_LIMIT == 6
MAX_REQUESTS_PER_MINUTE == 10
MAX_REQUESTS_PER_HOUR == 60
BLOCK_AFTER == 5     \* violations after which record_violation blocks the user
REWARD_DAYS == 7          \* days of premium per invite
MAX_REWARD_DAYS == 365    \* cap on total_reward_days
MINUTE == 60         \* timedelta(minutes=1) in seconds
HOUR == 3600         \* timedelta(hours=1) in seconds

(* ---- bounds of the model ---------------------------------------------- *)
MaxRequests == 3     \* requests started in one behaviour
MaxInflight == 2     \* request slots (concurrent coroutines)
MaxTicks == 2        \* clock advances in one behaviour
MaxDay == 2          \* calendar days
MaxKeys == 2         \* Tavily credentials configured
MaxExtra == 1        \* items the producer may return beyond FETCH_COUNT
StaticLen == 7       \* length of the list in a well-formed static fallback file
MaxCalls == 9        \* get_next_key calls made directly on a rotator
MaxNews == 3         \* items in the list the news LLM answer parses to
MaxNewsRequests == 2 \* news generation requests in one behaviour
MaxRateCalls == 7    \* direct check_rate_limit calls in one behaviour
MaxRateTicks == 2    \* clock advances between those calls
MaxInviteCalls == 5  \* invite and admin calls in one behaviour

Users == {"u1", "u2"}
\* the users, and somebody who has just registered
People == Users \cup {"n1"}
\* what generate_invite_code can return
Codes == {"A1B2C3", "X7Y8Z9"}
\* the days an administrator grants
GrantDays == {MAX_REWARD_DAYS - 5, MAX_REWARD_DAYS}
\* the whole minutes of traffic at MAX_REQUESTS_PER_MINUTE that stay below
\* MAX_REQUESTS_PER_HOUR
FullMinutes == (MAX_REQUESTS_PER_HOUR \div MAX_REQUESTS_PER_MINUTE) - 1
\* how far the clock moves between two check_rate_limit calls
RateSteps == {1, MINUTE - 1, MINUTE, HOUR - FullMinutes * MINUTE - 1, HOUR - FullMinutes * MINUTE}
Kinds == {"tools", "cases"}
Professions == {"p1", "p2"}
Slots == 1..MaxInflight
Days == 1..MaxDay
TickSteps == {1, CACHE_TTL}
\* lengths of the list the producer returns for a request of FETCH_COUNT items
BatchLens == {0, DISPLAY_COUNT, DISPLAY_COUNT + 1, FETCH_COUNT}
                 \cup (FETCH_COUNT + 1 .. FETCH_COUNT + MaxExtra)
\* what get_premium_status does: raises, finds no row, or finds a row whose
\* expires_at is null or lies before / at / after the current instant
OracleOutcomes == {"raise", "norecord", "null", "past", "now", "future"}
\* one outcome that resolves to a free user and one that resolves to premium
FreeOrPremium == {"norecord", "future"}
\* outcome of _save_user_daily_content: written, failed before the file was
\* opened (nothing changes), failed after open(..., 'w') truncated the file
SaveOutcomes == {"ok", "nofile", "partial"}
\* the static fallback file: missing, not parseable, or a JSON list
FileStates == {"absent", "corrupt", "list"}
\* the two news endpoints: /generate and /generate-general
Feeds == {"daily", "general"}
\* professions a news request may name: a valid one, the empty string, and
\* one containing a keyword of PROFESSION_BLACKLIST
NewsProfessions == {"p1", "", "admin"}
\* the url of a news item: the key is missing, or holds a string
NoUrl == [has |-> FALSE]
Urls == {NoUrl} \cup {[has |-> TRUE, value |-> v] : v \in {"", "a", "b"}}
\* the lists of at most n items the LLM answer may parse to; item i carries
\* position i as content
NewsListsUpTo(n) ==
    UNION {{[i \in 1..m |-> [n |-> i, url |-> f[i]]] : f \in [1..m -> Urls]} : m \in 0..n}
NewsLists == NewsListsUpTo(MaxNews)

VARIABLES
    now,            \* time.time()
    ticks,          \* clock advances so far
    today,          \* datetime.now() calendar day
    tools_cache,    \* ContentCache.tools_cache: profession -> entry
    cases_cache,    \* ContentCache.cases_cache
    user_daily,     \* data/user_daily/<kind>/<user>_<date>.json
    keys,           \* TavilyKeyRotator.keys
    current_index,  \* TavilyKeyRotator.current_index
    req,            \* the coroutines in flight, one per slot
    started,        \* requests started so far
    fetched,        \* batches the producer has returned so far
    done,           \* the request that returned last, with its response
    lastFor,        \* per (user, kind): summary of the last returned request
    lastGet,        \* the last get_tools / get_cases call: arguments and results
    hist,           \* per cache key: what get and set have moved so far
    issued,         \* the credentials get_next_key has returned so far
    user_news,      \* data/user_news/<user>_<date>.json
    general_news,   \* data/general_news/<user>_<date>.json
    request_counts, \* content_safety.request_counts: user -> timestamps
    violations,     \* data/violations.json: user -> violations and blocked flag
    news_req,       \* the news generation in flight, if any
    news_done,      \* the news generation that ended last, with its response
    rate_accepted,  \* user -> the times of the check_rate_limit calls that passed
    rate_last,      \* the check_rate_limit call made last, with its verdict
    invites,        \* data/invites.json: code -> invite record
    users_premium,  \* data/users_premium.json: user -> premium record
    invite_last     \* the invite or admin call made last, with its outcome

\* the state of news generation and of the safety checks in front of it
newsVars == <<user_news, general_news, request_counts, violations, news_req, news_done>>

\* the rate limiter's log and the invite and premium stores
sideVars == <<rate_accepted, rate_last, invites, users_premium, invite_last>>

vars == <<now, ticks, today, tools_cache, cases_cache, user_daily, keys,
          current_index, req, started, fetched, done, lastFor, lastGet, hist,
          issued, newsVars, sideVars>>

NoEntry == [present |-> FALSE]
Idle == [pc |-> "idle"]
NoRecord == [state |-> "absent"]
Unreadable == [state |-> "corrupt"]
NoResponse == [seq |-> 0]
NoSummary == [seen |-> FALSE]
NoGet == [called |-> FALSE]
CacheKeys == Kinds \X Professions
LockKeys == Users \X Kinds \X Days

\* the items of the producer's f-th batch: n fresh dictionaries
Batch(f, n) == [i \in 1..n |-> <<f, i>>]
\* the items of the static fallback file
StaticItems == [i \in 1..StaticLen |-> <<0, i>>]

Take(s, n) == SubSeq(s, 1, IF n < Len(s) THEN n ELSE Len(s))
Drop(s, n) == SubSeq(s, n + 1, Len(s))

(* ---- TavilyKeyRotator --------------------------------------------------- *)
AllKeys == <<"tvly-a", "tvly-b", "tvly-c">>

has_keys(ks) == Len(ks) > 0

\* the first credential, whatever the cursor
NextKeyFirst(ks, idx) == IF Len(ks) = 0 THEN "" ELSE ks[1]

\* the key get_next_key returns ("" when none is configured)
NextKey(ks, idx) == IF Len(ks) = 0 THEN "" ELSE ks[idx + 1]

\* a cursor that is never advanced
NextIndexStuck(ks, idx) == idx

\* the cursor get_next_key leaves behind
NextIndex(ks, idx) == IF Len(ks) = 0 THEN idx ELSE (idx + 1) % Len(ks)

\* every credential list of at most n entries
KeyListsUpTo(n) == UNION {[1..m -> {AllKeys[i] : i \in 1..Len(AllKeys)}] : m \in 0..n}

(* ---- content_safety ------------------------------------------------------ *)
is_user_blocked(v, user_id) == v[user_id].blocked

record_violation(v, user_id) ==
    [v EXCEPT ![user_id] = [count |-> @.count + 1,
                            blocked |-> @.blocked \/ @.count + 1 >= BLOCK_AFTER]]

\* the timestamps check_rate_limit keeps: those less than an hour old
Pruned(counts, user_id, t) ==
    SelectSeq(counts[user_id], LAMBDA x : t - x < HOUR)

RecentMinute(counts, user_id, t) ==
    SelectSeq(Pruned(counts, user_id, t), LAMBDA x : t - x < MINUTE)

\* the minute check passing one request too many
RateOkOffByOne(counts, user_id, t) ==
    /\ ~(Len(RecentMinute(counts, user_id, t)) > MAX_REQUESTS_PER_MINUTE)
    /\ ~(Len(Pruned(counts, user_id, t)) >= MAX_REQUESTS_PER_HOUR)

\* the verdict of check_rate_limit
RateOk(counts, user_id, t) ==
    /\ ~(Len(RecentMinute(counts, user_id, t)) >= MAX_REQUESTS_PER_MINUTE)
    /\ ~(Len(Pruned(counts, user_id, t)) >= MAX_REQUESTS_PER_HOUR)

\* request_counts after check_rate_limit: pruned, and the request recorded
\* when it passes
check_rate_limit(counts, user_id, t) ==
    [counts EXCEPT ![user_id] = IF RateOk(counts, user_id, t)
                                THEN Append(Pruned(counts, user_id, t), t)
                                ELSE Pruned(counts, user_id, t)]

\* validate_profession: "valid", "empty" (rejected without a violation) or
\* "violation" (rejected, and a violation recorded)
validate_profession(profession) ==
    IF profession = "" THEN "empty"
    ELSE IF profession = "admin" THEN "violation"
    ELSE "valid"

(* ---- ContentCache ------------------------------------------------------- *)
\* one dictionary for both kinds
CacheOfSame(kind) == tools_cache

\* tools_cache or cases_cache
CacheOf(kind) == IF kind = "tools" THEN tools_cache ELSE cases_cache

\* an entry aged exactly CACHE_TTL counted as expired
is_expired_at_ttl(cache_entry, t) ==
    IF ~cache_entry.present THEN TRUE
    ELSE t - cache_entry.timestamp >= CACHE_TTL

is_expired(cache_entry, t) ==
    IF ~cache_entry.present THEN TRUE
    ELSE t - cache_entry.timestamp > CACHE_TTL

\* an entry of exactly DISPLAY_COUNT items counted as insufficient
NeedFetchOffByOne(entry, t) ==
    IF is_expired(entry, t) THEN TRUE
    ELSE Len(entry.items) <= DISPLAY_COUNT

\* need_fetch of get_tools / get_cases
NeedFetch(entry, t) ==
    IF is_expired(entry, t) THEN TRUE
    ELSE Len(entry.items) < DISPLAY_COUNT

\* the list get_tools / get_cases returns
GetResult(entry, t) ==
    IF NeedFetch(entry, t) THEN <<>> ELSE SubSeq(entry.items, 1, DISPLAY_COUNT)

\* a get that leaves the returned items in the entry
GetRemainderKeep(entry, t) == entry

\* a get that removes one item more than it returns
GetRemainderSkip(entry, t) ==
    IF NeedFetch(entry, t) THEN entry
    ELSE [entry EXCEPT !.items = SubSeq(entry.items, DISPLAY_COUNT + 2, Len(entry.items))]

\* a miss that throws the entry away
GetRemainderDrop(entry, t) ==
    IF NeedFetch(entry, t) THEN NoEntry
    ELSE [entry EXCEPT !.items = SubSeq(entry.items, DISPLAY_COUNT + 1, Len(entry.items))]

\* the entry get_tools / get_cases leaves behind
GetRemainder(entry, t) ==
    IF NeedFetch(entry, t) THEN entry
    ELSE [entry EXCEPT !.items = SubSeq(entry.items, DISPLAY_COUNT + 1, Len(entry.items))]

\* the entry set_tools / set_cases stores
SetEntry(items, t, seed) ==
    [present |-> TRUE, items |-> items, timestamp |-> t, seed |-> seed]

\* the stored seed handed out again
get_next_seed_stale(cache_type, profession) ==
    LET entry == CacheOf(cache_type)[profession]
    IN  IF entry.present THEN entry.seed ELSE 0

get_next_seed(cache_type, profession) ==
    LET entry == CacheOf(cache_type)[profession]
    IN  (IF entry.present THEN entry.seed ELSE -1) + 1

(* ---- the user_daily lock files ------------------------------------------ *)
\* a save that keeps a record that is already there
save_if_absent(store, user_id, content_type, date, items, w) ==
    IF w = "ok" /\ store[<<user_id, content_type, date>>].state # "ok"
    THEN [store EXCEPT ![<<user_id, content_type, date>>] = [state |-> "ok", items |-> items]]
    ELSE IF w = "partial"
    THEN [store EXCEPT ![<<user_id, content_type, date>>] = Unreadable]
    ELSE store

\* a save that also removes the records the user has for other days
save_and_prune(store, user_id, content_type, date, items, w) ==
    IF w = "ok"
    THEN [l \in DOMAIN store |->
            IF l = <<user_id, content_type, date>> THEN [state |-> "ok", items |-> items]
            ELSE IF l[1] = user_id /\ l[2] = content_type THEN [state |-> "absent"]
            ELSE store[l]]
    ELSE store

\* the store after _save_user_daily_content(user_id, content_type, date, items)
\* ended the way w says; the function swallows every exception
save_user_daily_content(store, user_id, content_type, date, items, w) ==
    IF w = "ok"
    THEN [store EXCEPT ![<<user_id, content_type, date>>] = [state |-> "ok", items |-> items]]
    ELSE IF w = "partial"
    THEN [store EXCEPT ![<<user_id, content_type, date>>] = Unreadable]
    ELSE store

(* ---- entitlement resolution of get_ai_tools / get_ai_cases -------------- *)
\* expires_at of the row the oracle returns, as an instant (0 stands for null)
ExpiresAt(o, t) ==
    IF o = "past" THEN t - 1 ELSE IF o = "now" THEN t ELSE IF o = "future" THEN t + 1 ELSE 0

ResolvePremium(o, t) ==
    IF o = "raise" THEN FALSE
    ELSE IF o = "norecord" THEN FALSE
    ELSE IF o = "null" THEN FALSE
    ELSE ExpiresAt(o, t) > t

\* lines 253-265 / 356-368: what the lookup of today's record finds.  When the
\* file exists it is opened and json.load(f) is evaluated (line 256 / 359);
\* json is a local name of the endpoint function, made local by the import
\* in its except branch (line 312 / 415) and not bound before that import
\* runs, so the call raises UnboundLocalError whatever the file holds.  The
\* except clause of line 264 / 367 swallows it and the request goes on to
\* the cache: the return of lines 258-263 / 361-366 is never reached.
ReadDailyLock(record) == IF record.state = "absent" THEN "absent" ELSE "raise"

\* line 249 / 352: the daily lock is looked up for free, unforced requests
ChecksDailyLock(is_premium, force_refresh) == ~is_premium /\ ~force_refresh

\* saving for every user
SavesDailyAlways(is_premium) == TRUE

\* lines 272, 299 / 375, 402: what was shown is saved for free users
SavesDaily(is_premium) == ~is_premium

\* line 268 / 371: the cache is consulted unless the refresh is forced
ConsultsCache(force_refresh) == ~force_refresh

\* lines 292-293 / 395-396
DisplayItems(batch) == Take(batch, DISPLAY_COUNT)
CacheItems(batch) == Drop(batch, DISPLAY_COUNT)

\* line 295 / 398: the remainder is stored only when it is not empty
StoresRemainder(cache_items) == Len(cache_items) > 0

(* ---- get_ai_tools / get_ai_cases ---------------------------------------- *)
\* the request's locals once entitlement and the daily lock are resolved
\* (lines 233-265 / 336-368); lockSeen is what the lock lookup found, if it
\* was made, and lockBefore the state of today's record at that moment
Ctx(u, k, p, f, o) ==
    LET prem == ResolvePremium(o, now)
    IN  [pc |-> "fetching", user_id |-> u, kind |-> k, profession |-> p,
         force_refresh |-> f, is_premium |-> prem, today |-> today,
         lockSeen |-> IF ChecksDailyLock(prem, f)
                      THEN ReadDailyLock(user_daily[<<u, k, today>>]) ELSE "notread",
         lockBefore |-> user_daily[<<u, k, today>>].state,
         lockRecord |-> user_daily[<<u, k, today>>], oracle |-> o,
         seed |-> -1, api_key |-> "", key_no |-> 0, startSeq |-> done.seq]

\* the response is recorded in done, and summarised in lastFor for the next
\* request of the same user and kind
Summary(c, seq, outcome, items, source, saved) ==
    [seen |-> TRUE, seq |-> seq, outcome |-> outcome, items |-> items,
     source |-> source, force_refresh |-> c.force_refresh,
     is_premium |-> c.is_premium, day |-> c.today, lockSeen |-> c.lockSeen,
     lockBefore |-> c.lockBefore, saved |-> saved]

Finish(c, outcome, items, source, fields, total, calls, raised, saved) ==
    /\ done' = [seq |-> done.seq + 1, user_id |-> c.user_id, kind |-> c.kind,
                profession |-> c.profession, force_refresh |-> c.force_refresh,
                is_premium |-> c.is_premium, day |-> c.today, lockSeen |-> c.lockSeen,
                lockBefore |-> c.lockBefore, lockRecord |-> c.lockRecord,
                oracle |-> c.oracle, startSeq |-> c.startSeq, seed |-> c.seed,
                outcome |-> outcome, items |-> items, source |-> source,
                fields |-> fields, total_fetched |-> total, calls |-> calls,
                raised |-> raised, saved |-> saved,
                prev |-> lastFor[<<c.user_id, c.kind>>]]
    /\ lastFor' = [lastFor EXCEPT ![<<c.user_id, c.kind>>] =
                     Summary(c, done.seq + 1, outcome, items, source, saved)]

\* lines 309-318 / 412-421: the except branch of the slow path
Fallback(c, fb) ==
    IF fb = "list"
    THEN Finish(c, "return", Take(StaticItems, FALLBACK_LIMIT), "fallback",
                {"items", "source"}, -1, 1, TRUE, "nosave")
    ELSE IF fb = "absent"
    THEN Finish(c, "return", <<>>, "none", {"items", "error"}, -1, 1, TRUE, "nosave")
    ELSE Finish(c, "raise", <<>>, "none", {}, -1, 1, TRUE, "nosave")

\* the record of a get_tools / get_cases call
GetCall(k, p) ==
    LET entry == CacheOf(k)[p]
    IN  [called |-> TRUE, kind |-> k, profession |-> p, at |-> now, before |-> entry,
         items |-> GetResult(entry, now), need_fetch |-> NeedFetch(entry, now),
         after |-> GetRemainder(entry, now)]

\* the cache kind0 after the request's get_tools / get_cases call, if it makes one
AfterGet(kind0, k, p, f) ==
    IF k = kind0 /\ ConsultsCache(f)
    THEN [CacheOf(kind0) EXCEPT ![p] = GetCall(k, p).after]
    ELSE CacheOf(kind0)

\* what the call, if made, adds to the history of the key
HistAfterGet(k, p, f) ==
    IF ConsultsCache(f)
    THEN [hist EXCEPT ![<<k, p>>].gets = @ \o GetCall(k, p).items,
                      ![<<k, p>>].since = @ \o GetCall(k, p).items]
    ELSE hist

\* the request reaches the slow path: the cache was skipped or asked for a
\* fetch (lines 267-281)
ReachesSlowPath(c) ==
    ConsultsCache(c.force_refresh) => NeedFetch(CacheOf(c.kind)[c.profession], now)

\* a lock write that is not made cannot fail
SaveCase(is_premium, w) == SavesDaily(is_premium) \/ w = "ok"

SaveResult(is_premium, w) == IF SavesDaily(is_premium) THEN w ELSE "nosave"

\* the cache answers: lines 268-279
RequestCacheHit(s, u, k, p, f, o, w) ==
    LET c == Ctx(u, k, p, f, o)
        g == GetCall(k, p)
    IN  /\ req[s].pc = "idle"
        /\ started < MaxRequests
        /\ ConsultsCache(f)
        /\ ~g.need_fetch
        /\ SaveCase(c.is_premium, w)
        /\ tools_cache' = AfterGet("tools", k, p, f)
        /\ cases_cache' = AfterGet("cases", k, p, f)
        /\ lastGet' = g
        /\ hist' = HistAfterGet(k, p, f)
        /\ user_daily' = IF SavesDaily(c.is_premium)
                         THEN save_user_daily_content(user_daily, u, k, c.today, g.items, w)
                         ELSE user_daily
        /\ Finish(c, "return", g.items, "cache",
                  {"items", "profession", "source", "cached"}, -1, 0, FALSE,
                  SaveResult(c.is_premium, w))
        /\ started' = started + 1
        /\ UNCHANGED <<now, ticks, today, keys, current_index, req, fetched, issued, newsVars, sideVars>>

\* the slow path with no credential configured: search_and_recommend_* raises
\* before any await (ai_processor.py 332-333) and the endpoint falls back
RequestNoKeys(s, u, k, p, f, o, fb) ==
    LET c == Ctx(u, k, p, f, o)
    IN  /\ req[s].pc = "idle"
        /\ started < MaxRequests
        /\ ReachesSlowPath(c)
        /\ ~has_keys(keys)
        /\ tools_cache' = AfterGet("tools", k, p, f)
        /\ cases_cache' = AfterGet("cases", k, p, f)
        /\ lastGet' = IF ConsultsCache(f) THEN GetCall(k, p) ELSE lastGet
        /\ hist' = HistAfterGet(k, p, f)
        /\ Fallback([c EXCEPT !.seed = get_next_seed(k, p)'], fb)
        /\ started' = started + 1
        /\ UNCHANGED <<now, ticks, today, user_daily, keys, current_index, req,
                       fetched, issued, newsVars, sideVars>>

\* the slow path up to the first await: seed, credential, search in flight
\* (insights.py 283-290, ai_processor.py 332-362)
RequestFetch(s, u, k, p, f, o) ==
    LET c == Ctx(u, k, p, f, o)
    IN  /\ req[s].pc = "idle"
        /\ started < MaxRequests
        /\ ReachesSlowPath(c)
        /\ has_keys(keys)
        /\ tools_cache' = AfterGet("tools", k, p, f)
        /\ cases_cache' = AfterGet("cases", k, p, f)
        /\ lastGet' = IF ConsultsCache(f) THEN GetCall(k, p) ELSE lastGet
        /\ hist' = HistAfterGet(k, p, f)
        /\ req' = [req EXCEPT ![s] = [c EXCEPT !.seed = get_next_seed(k, p)',
                                               !.api_key = NextKey(keys, current_index),
                                               !.key_no = Len(issued) + 1]]
        /\ current_index' = NextIndex(keys, current_index)
        /\ issued' = Append(issued, NextKey(keys, current_index))
        /\ started' = started + 1
        /\ UNCHANGED <<now, ticks, today, user_daily, keys, fetched, done,
                       lastFor, newsVars, sideVars>>

\* the producer returns a list of n items: lines 292-308 / 395-411
ProducerReturns(s, n, w) ==
    LET c == req[s]
        batch == Batch(fetched + 1, n)
        display_items == DisplayItems(batch)
        cache_items == CacheItems(batch)
        entry == SetEntry(cache_items, now, c.seed)
        k == c.kind
        p == c.profession
    IN  /\ c.pc = "fetching"
        /\ SaveCase(c.is_premium, w)
        /\ fetched' = fetched + 1
        /\ tools_cache' = IF k = "tools" /\ StoresRemainder(cache_items)
                          THEN [tools_cache EXCEPT ![p] = entry] ELSE tools_cache
        /\ cases_cache' = IF k = "cases" /\ StoresRemainder(cache_items)
                          THEN [cases_cache EXCEPT ![p] = entry] ELSE cases_cache
        /\ hist' = IF StoresRemainder(cache_items)
                   THEN [hist EXCEPT ![<<k, p>>].sets = @ \o cache_items,
                                     ![<<k, p>>].last = cache_items,
                                     ![<<k, p>>].since = <<>>,
                                     ![<<k, p>>].seeds = Append(@, c.seed),
                                     ![<<k, p>>].shown = @ \o display_items,
                                     ![<<k, p>>].fetch_seeds = Append(@, c.seed)]
                   ELSE [hist EXCEPT ![<<k, p>>].shown = @ \o display_items,
                                     ![<<k, p>>].fetch_seeds = Append(@, c.seed)]
        /\ user_daily' = IF SavesDaily(c.is_premium)
                         THEN save_user_daily_content(user_daily, c.user_id, k, c.today,
                                                      display_items, w)
                         ELSE user_daily
        /\ Finish(c, "return", display_items, "web_search",
                  {"items", "profession", "source", "cached", "total_fetched"},
                  Len(batch), 1, FALSE, SaveResult(c.is_premium, w))
        /\ req' = [req EXCEPT ![s] = Idle]
        /\ UNCHANGED <<now, ticks, today, keys, current_index, started, lastGet, issued, newsVars, sideVars>>

\* the producer raises (search or LLM failure, no results, malformed output)
ProducerRaises(s, fb) ==
    /\ req[s].pc = "fetching"
    /\ Fallback(req[s], fb)
    /\ req' = [req EXCEPT ![s] = Idle]
    /\ UNCHANGED <<now, ticks, today, tools_cache, cases_cache, user_daily, keys,
                   current_index, started, fetched, lastGet, hist, issued, newsVars, sideVars>>

\* time passes
Tick(d) ==
    /\ ticks < MaxTicks
    /\ now' = now + d
    /\ ticks' = ticks + 1
    /\ UNCHANGED <<today, tools_cache, cases_cache, user_daily, keys, current_index,
                   req, started, fetched, done, lastFor, lastGet, hist, issued, newsVars, sideVars>>

\* midnight passes
NextDay ==
    /\ today < MaxDay
    /\ today' = today + 1
    /\ UNCHANGED <<now, ticks, tools_cache, cases_cache, user_daily, keys, current_index,
                   req, started, fetched, done, lastFor, lastGet, hist, issued, newsVars, sideVars>>

(* ---- TavilyKeyRotator used on its own ----------------------------------- *)
\* one get_next_key call
GetNextKey ==
    /\ Len(issued) < MaxCalls
    /\ issued' = Append(issued, NextKey(keys, current_index))
    /\ current_index' = NextIndex(keys, current_index)
    /\ UNCHANGED <<now, ticks, today, tools_cache, cases_cache, user_daily, keys, req,
                   started, fetched, done, lastFor, lastGet, hist, newsVars, sideVars>>

(* ---- generate_daily_news / generate_general_news ------------------------ *)
\* the variables of the tools/cases pipeline, which news generation leaves alone
contentVars == <<tools_cache, cases_cache, user_daily, keys, current_index, req,
                 started, fetched, done, lastFor, lastGet, hist, issued>>

NewsStore(feed) == IF feed = "daily" THEN user_news ELSE general_news

\* item.get('url', '')
UrlOf(item) == IF item.url.has THEN item.url.value ELSE ""

\* the loop of lines 606-612 / 868-874 from item i on
RECURSIVE DedupLoop(_, _, _, _)
DedupLoop(news_items, i, seen_urls, unique_items) ==
    IF i > Len(news_items) THEN unique_items
    ELSE LET item == news_items[i]
             url == UrlOf(item)
         IN  IF url # "" /\ url \notin seen_urls
             THEN DedupLoop(news_items, i + 1, seen_urls \cup {url}, Append(unique_items, item))
             ELSE DedupLoop(news_items, i + 1, seen_urls, unique_items)

Dedup(news_items) == DedupLoop(news_items, 1, {}, <<>>)

\* lines 619-621 / 880-882: every kept item gets a fresh id and the date
Stamp(items, feed, seq, date) ==
    [i \in 1..Len(items) |->
        [n |-> items[i].n, url |-> items[i].url,
         id |-> <<IF feed = "daily" THEN "news" ELSE "general", seq, i>>,
         timestamp |-> date]]

\* lines 629-643 / 888-900: the file is written inside a try of its own
save_news(store, user_id, date, profession, items, w) ==
    IF w = "ok"
    THEN [store EXCEPT ![<<user_id, date>>] =
             [state |-> "ok", items |-> items, profession |-> profession]]
    ELSE IF w = "partial"
    THEN [store EXCEPT ![<<user_id, date>>] = Unreadable]
    ELSE store

\* the response of a news request, recorded in news_done
NewsFinish(c, outcome, status, source, fields, news_items, unique_items, items, calls) ==
    news_done' = [seq |-> news_done.seq + 1, feed |-> c.feed, user_id |-> c.user_id,
                  profession |-> c.profession, day |-> c.day,
                  recordBefore |-> c.recordBefore, outcome |-> outcome,
                  status |-> status, source |-> source, fields |-> fields,
                  news_items |-> news_items, unique_items |-> unique_items,
                  items |-> items, calls |-> calls]

\* the locals of a news request; recordBefore is the stored record of the
\* user for the day at the moment the request arrives
NewsCtx(feed, u, p) ==
    [pc |-> "fetching", feed |-> feed, user_id |-> u,
     profession |-> IF feed = "daily" THEN p ELSE "",
     day |-> today, recordBefore |-> NewsStore(feed)[<<u, today>>],
     api_key |-> IF Len(keys) > 0 THEN keys[1] ELSE ""]

\* the safety checks in front of the try block let the request through
PassesChecks(feed, u, p) ==
    /\ ~is_user_blocked(violations, u)
    /\ RateOk(request_counts, u, now)
    /\ feed = "daily" => validate_profession(p) = "valid"

\* lines 443-444 / 713-714: a blocked user is turned away with 403
GenerateBlocked(feed, u, p) ==
    /\ news_req.pc = "idle"
    /\ news_done.seq < MaxNewsRequests
    /\ is_user_blocked(violations, u)
    /\ NewsFinish(NewsCtx(feed, u, p), "raise", 403, "none", {}, <<>>, <<>>, <<>>, 0)
    /\ UNCHANGED <<now, ticks, today, contentVars, sideVars, user_news, general_news,
                   request_counts, violations, news_req>>

\* lines 446-448 / 716-718: over the rate limit, 429
GenerateRateLimited(feed, u, p) ==
    /\ news_req.pc = "idle"
    /\ news_done.seq < MaxNewsRequests
    /\ ~is_user_blocked(violations, u)
    /\ ~RateOk(request_counts, u, now)
    /\ request_counts' = check_rate_limit(request_counts, u, now)
    /\ NewsFinish(NewsCtx(feed, u, p), "raise", 429, "none", {}, <<>>, <<>>, <<>>, 0)
    /\ UNCHANGED <<now, ticks, today, contentVars, sideVars, user_news, general_news,
                   violations, news_req>>

\* lines 450-452: generate_daily_news rejects the profession with 400
GenerateInvalidProfession(u, p) ==
    /\ news_req.pc = "idle"
    /\ news_done.seq < MaxNewsRequests
    /\ ~is_user_blocked(violations, u)
    /\ RateOk(request_counts, u, now)
    /\ validate_profession(p) # "valid"
    /\ request_counts' = check_rate_limit(request_counts, u, now)
    /\ violations' = IF validate_profession(p) = "violation"
                     THEN record_violation(violations, u) ELSE violations
    /\ NewsFinish(NewsCtx("daily", u, p), "raise", 400, "none", {}, <<>>, <<>>, <<>>, 0)
    /\ UNCHANGED <<now, ticks, today, contentVars, sideVars, user_news, general_news, news_req>>

\* lines 457-460 / 724-727: no credential configured; the exception is raised
\* inside the try and answered with the error response
GenerateNoKeys(feed, u, p) ==
    /\ news_req.pc = "idle"
    /\ news_done.seq < MaxNewsRequests
    /\ PassesChecks(feed, u, p)
    /\ Len(keys) = 0
    /\ request_counts' = check_rate_limit(request_counts, u, now)
    /\ NewsFinish(NewsCtx(feed, u, p), "return", 200, "error",
                  {"items", "error", "source"}, <<>>, <<>>, <<>>, 0)
    /\ UNCHANGED <<now, ticks, today, contentVars, sideVars, user_news, general_news,
                   violations, news_req>>

\* the request up to its first await: the search is in flight
GenerateStart(feed, u, p) ==
    /\ news_req.pc = "idle"
    /\ news_done.seq < MaxNewsRequests
    /\ PassesChecks(feed, u, p)
    /\ Len(keys) > 0
    /\ request_counts' = check_rate_limit(request_counts, u, now)
    /\ news_req' = NewsCtx(feed, u, p)
    /\ UNCHANGED <<now, ticks, today, contentVars, sideVars, user_news, general_news,
                   violations, news_done>>

\* the LLM answer parses to news_items: dedup, stamp, save, respond
\* (lines 602-650 / 864-906); generate_daily_news dates the file by the clock
\* at this moment, generate_general_news by the day the request arrived
GenerateReturns(news_items, w) ==
    LET c == news_req
        date == IF c.feed = "daily" THEN today ELSE c.day
        unique_items == Dedup(news_items)
        items == Stamp(unique_items, c.feed, news_done.seq + 1, date)
    IN  /\ c.pc = "fetching"
        /\ user_news' = IF c.feed = "daily"
                        THEN save_news(user_news, c.user_id, date, c.profession, items, w)
                        ELSE user_news
        /\ general_news' = IF c.feed = "general"
                           THEN save_news(general_news, c.user_id, date, c.profession, items, w)
                           ELSE general_news
        /\ NewsFinish(c, "return", 200,
                      IF c.feed = "daily" THEN "tavily_ai" ELSE "tavily_ai_general",
                      IF c.feed = "daily" THEN {"items", "profession", "source", "count"}
                                          ELSE {"items", "source", "count"},
                      news_items, unique_items, items, 1)
        /\ news_req' = Idle
        /\ UNCHANGED <<now, ticks, today, contentVars, sideVars, request_counts, violations>>

\* the search or the LLM call fails, finds nothing, or the answer does not
\* parse: lines 652-659 / 908-914
GenerateRaises ==
    /\ news_req.pc = "fetching"
    /\ NewsFinish(news_req, "return", 200, "error", {"items", "error", "source"},
                  <<>>, <<>>, <<>>, 1)
    /\ news_req' = Idle
    /\ UNCHANGED <<now, ticks, today, contentVars, sideVars, user_news, general_news,
                   request_counts, violations>>

(* ---- check_rate_limit called on its own ---------------------------------- *)
NoCall == [n |-> 0]

\* content_safety.py 101-128, one call by user_id at the current instant
CheckRateLimit(user_id) ==
    LET ok == RateOk(request_counts, user_id, now)
    IN  /\ rate_last.n < MaxRateCalls
        /\ request_counts' = check_rate_limit(request_counts, user_id, now)
        /\ rate_accepted' = IF ok THEN [rate_accepted EXCEPT ![user_id] = Append(@, now)]
                            ELSE rate_accepted
        /\ rate_last' = [n |-> rate_last.n + 1, user_id |-> user_id, ok |-> ok, t |-> now]
        /\ UNCHANGED <<now, ticks, today, contentVars, user_news, general_news,
                       violations, news_req, news_done, invites, users_premium,
                       invite_last>>

\* time passes between two calls
RateTick(d) ==
    /\ ticks < MaxRateTicks
    /\ now' = now + d
    /\ ticks' = ticks + 1
    /\ UNCHANGED <<today, contentVars, newsVars, sideVars>>

\* the memory of the limiter after b minutes of ten requests each, the last
\* of them a minute ago, and c requests at the current instant
RateHistory(b, c) ==
    [i \in 1..(MAX_REQUESTS_PER_MINUTE * b + c) |->
        IF i <= MAX_REQUESTS_PER_MINUTE * b
        THEN 0 - MINUTE * (b - ((i - 1) \div MAX_REQUESTS_PER_MINUTE))
        ELSE 0]

(* ---- invite.py and admin.py: invite codes and premium records ----------- *)
NoInvite == [present |-> FALSE]
NoPremium == [present |-> FALSE]
NoInviteCall == [n |-> 0]

\* users.get(owner_id, {...}): the stored record or a fresh one expiring now
OwnerPremium(users, owner_id, day) ==
    IF users[owner_id].present THEN users[owner_id]
    ELSE [present |-> TRUE, premium_expires |-> day, invited_count |-> 0,
          total_reward_days |-> 0]

\* min(REWARD_DAYS, MAX_REWARD_DAYS - current_reward_days)
ActualReward(current_reward_days) ==
    IF REWARD_DAYS <= MAX_REWARD_DAYS - current_reward_days
    THEN REWARD_DAYS ELSE MAX_REWARD_DAYS - current_reward_days

\* current_expires, moved up to the present when it lies in the past
CurrentExpires(record, day) ==
    IF record.premium_expires < day THEN day ELSE record.premium_expires

\* the checks of use_invite_code in their order (invite.py 135-163)
UseVerdict(inv, users, invite_code, new_user_id, day) ==
    IF ~inv[invite_code].present THEN "invalid"
    ELSE IF inv[invite_code].owner_id = new_user_id THEN "own"
    ELSE IF \E c \in Codes : /\ inv[c].present
                             /\ \E i \in 1..Len(inv[c].used_by) : inv[c].used_by[i] = new_user_id
         THEN "used"
    ELSE IF OwnerPremium(users, inv[invite_code].owner_id, day).total_reward_days
               >= MAX_REWARD_DAYS
         THEN "cap"
    ELSE "ok"

\* invite.py 96-121: the user's code, created with a fresh random value when
\* the user has none
GetOrCreateInviteCode(user_id, new_code) ==
    /\ invite_last.n < MaxInviteCalls
    /\ IF \E c \in Codes : invites[c].present /\ invites[c].owner_id = user_id
       THEN invites' = invites
       ELSE /\ ~invites[new_code].present
            /\ invites' = [invites EXCEPT ![new_code] =
                             [present |-> TRUE, owner_id |-> user_id,
                              used_count |-> 0, used_by |-> <<>>]]
    /\ invite_last' = [n |-> invite_last.n + 1, op |-> "code", verdict |-> "ok",
                       user_id |-> user_id]
    /\ UNCHANGED <<now, ticks, today, contentVars, newsVars, rate_accepted, rate_last,
                   users_premium>>

\* invite.py 124-190
UseInviteCode(invite_code, new_user_id) ==
    LET verdict == UseVerdict(invites, users_premium, invite_code, new_user_id, today)
        owner_id == invites[invite_code].owner_id
        owner_premium == OwnerPremium(users_premium, owner_id, today)
        current_reward_days == owner_premium.total_reward_days
        actual_reward == ActualReward(current_reward_days)
    IN  /\ invite_last.n < MaxInviteCalls
        /\ IF verdict = "ok"
           THEN /\ invites' = [invites EXCEPT ![invite_code] =
                                 [@ EXCEPT !.used_count = @ + 1,
                                           !.used_by = Append(@, new_user_id)]]
                /\ users_premium' = [users_premium EXCEPT ![owner_id] =
                                       [owner_premium EXCEPT
                                          !.premium_expires =
                                              CurrentExpires(owner_premium, today) + actual_reward,
                                          !.invited_count = @ + 1,
                                          !.total_reward_days = current_reward_days + actual_reward]]
           ELSE UNCHANGED <<invites, users_premium>>
        /\ invite_last' = [n |-> invite_last.n + 1, op |-> "use", verdict |-> verdict,
                           user_id |-> IF verdict = "invalid" THEN "" ELSE owner_id]
        /\ UNCHANGED <<now, ticks, today, contentVars, newsVars, rate_accepted, rate_last>>

\* admin.py 296-358, for the user id the e-mail address resolves to
GrantPremium(user_id, days) ==
    LET user_data == OwnerPremium(users_premium, user_id, today)
    IN  /\ invite_last.n < MaxInviteCalls
        /\ users_premium' = [users_premium EXCEPT ![user_id] =
                               [user_data EXCEPT
                                  !.premium_expires = CurrentExpires(user_data, today) + days,
                                  !.total_reward_days = @ + days]]
        /\ invite_last' = [n |-> invite_last.n + 1, op |-> "grant", verdict |-> "ok",
                           user_id |-> user_id]
        /\ UNCHANGED <<now, ticks, today, contentVars, newsVars, rate_accepted, rate_last,
                       invites>>

\* both stores empty
InitInvite ==
    /\ invites = [c \in Codes |-> NoInvite]
    /\ users_premium = [u \in People |-> NoPremium]
    /\ invite_last = NoInviteCall

NoHist == [gets |-> <<>>, sets |-> <<>>, last |-> <<>>, since |-> <<>>,
           seeds |-> <<>>, shown |-> <<>>, fetch_seeds |-> <<>>]

\* the state after construction, with the credential list the configuration
\* holds
InitContent(KeyLists) ==
    /\ now = 0
    /\ ticks = 0
    /\ today = 1
    /\ tools_cache = [p \in Professions |-> NoEntry]
    /\ cases_cache = [p \in Professions |-> NoEntry]
    /\ user_daily = [l \in LockKeys |-> NoRecord]
    /\ keys \in KeyLists
    /\ current_index = 0
    /\ req = [s \in Slots |-> Idle]
    /\ started = 0
    /\ fetched = 0
    /\ done = NoResponse
    /\ lastFor = [x \in Users \X Kinds |-> NoSummary]
    /\ lastGet = NoGet
    /\ hist = [x \in CacheKeys |-> NoHist]
    /\ issued = <<>>
    /\ InitInvite

\* no news generated yet; the rate limiter's memory and the violations file
\* as earlier requests left them
InitNewsWith(Counts, Violations) ==
    /\ user_news = [x \in Users \X Days |-> NoRecord]
    /\ general_news = [x \in Users \X Days |-> NoRecord]
    /\ request_counts \in [Users -> {[i \in 1..n |-> 0] : n \in Counts}]
    /\ violations \in [Users -> {[count |-> n, blocked |-> n >= BLOCK_AFTER] : n \in Violations}]
    /\ news_req = Idle
    /\ news_done = NoResponse
    /\ rate_accepted = request_counts
    /\ rate_last = NoCall

InitWith(KeyCounts) ==
    /\ InitContent({SubSeq(AllKeys, 1, n) : n \in KeyCounts})
    /\ InitNewsWith({0}, {0})

\* coroutines are anonymous: a new request takes the lowest free slot
FreeSlot(s) == \A t \in Slots : t < s => req[t].pc # "idle"

\* the requests of one user for one kind and profession, free or premium,
\* running concurrently
Init == InitWith({0, MaxKeys})

Next ==
    \/ \E s \in Slots, f \in BOOLEAN, o \in FreeOrPremium :
          /\ FreeSlot(s)
          /\ \/ \E w \in SaveOutcomes : RequestCacheHit(s, "u1", "tools", "p1", f, o, w)
             \/ \E fb \in FileStates : RequestNoKeys(s, "u1", "tools", "p1", f, o, fb)
             \/ RequestFetch(s, "u1", "tools", "p1", f, o)
    \/ \E s \in Slots, n \in BatchLens, w \in SaveOutcomes : ProducerReturns(s, n, w)
    \/ \E s \in Slots, fb \in FileStates : ProducerRaises(s, fb)

Spec == Init /\ [][Next]_vars

\* one request at a time, over several days
NextSeq ==
    \/ \E f \in BOOLEAN, o \in FreeOrPremium :
          \/ \E w \in SaveOutcomes : RequestCacheHit(1, "u1", "tools", "p1", f, o, w)
          \/ \E fb \in FileStates : RequestNoKeys(1, "u1", "tools", "p1", f, o, fb)
          \/ RequestFetch(1, "u1", "tools", "p1", f, o)
    \/ \E n \in BatchLens, w \in SaveOutcomes : ProducerReturns(1, n, w)
    \/ \E fb \in FileStates : ProducerRaises(1, fb)
    \/ NextDay

SpecSeq == Init /\ [][NextSeq]_vars

\* one request at a time, for every answer of the premium oracle
NextEntitle ==
    \/ \E f \in BOOLEAN, o \in OracleOutcomes :
          \/ \E w \in SaveOutcomes : RequestCacheHit(1, "u1", "tools", "p1", f, o, w)
          \/ \E fb \in FileStates : RequestNoKeys(1, "u1", "tools", "p1", f, o, fb)
          \/ RequestFetch(1, "u1", "tools", "p1", f, o)
    \/ \E n \in BatchLens, w \in SaveOutcomes : ProducerReturns(1, n, w)
    \/ \E fb \in FileStates : ProducerRaises(1, fb)

SpecEntitle == Init /\ [][NextEntitle]_vars

\* premium requests for tools and for cases running concurrently on the one
\* rotator
InitShared == InitWith({MaxKeys})

NextShared ==
    \/ \E s \in Slots, k \in Kinds, f \in BOOLEAN :
          /\ FreeSlot(s)
          /\ \/ RequestCacheHit(s, "u1", k, "p1", f, "future", "ok")
             \/ RequestFetch(s, "u1", k, "p1", f, "future")
    \/ \E s \in Slots, n \in {DISPLAY_COUNT, FETCH_COUNT} : ProducerReturns(s, n, "ok")
    \/ \E s \in Slots : ProducerRaises(s, "absent")

SpecShared == InitShared /\ [][NextShared]_vars

\* one request at a time, over every user, kind and profession
NextKeyed ==
    \/ \E u \in Users, k \in Kinds, p \in Professions, f \in BOOLEAN :
          \/ RequestCacheHit(1, u, k, p, f, "norecord", "ok")
          \/ RequestFetch(1, u, k, p, f, "norecord")
    \/ \E n \in {DISPLAY_COUNT, FETCH_COUNT} : ProducerReturns(1, n, "ok")
    \/ ProducerRaises(1, "absent")

SpecKeyed == InitShared /\ [][NextKeyed]_vars

\* check_rate_limit on its own, for two users, after some minutes of traffic
\* of the first
InitRate ==
    /\ InitContent({<<>>})
    /\ user_news = [x \in Users \X Days |-> NoRecord]
    /\ general_news = [x \in Users \X Days |-> NoRecord]
    /\ \E b \in {0, FullMinutes}, c \in {0, MAX_REQUESTS_PER_MINUTE - 1} :
          request_counts = [u \in Users |-> IF u = "u1" THEN RateHistory(b, c) ELSE <<>>]
    /\ violations = [u \in Users |-> [count |-> 0, blocked |-> FALSE]]
    /\ news_req = Idle
    /\ news_done = NoResponse
    /\ rate_accepted = request_counts
    /\ rate_last = NoCall

NextRate ==
    \/ \E u \in Users : CheckRateLimit(u)
    \/ \E d \in RateSteps : RateTick(d)

SpecRate == InitRate /\ [][NextRate]_vars

\* invite codes created and used, and premium granted by the administrator
InitInvites == InitWith({0})

NextInvites ==
    \/ \E u \in Users, c \in Codes : GetOrCreateInviteCode(u, c)
    \/ \E c \in Codes, u \in People : UseInviteCode(c, u)
    \/ \E u \in Users, days \in GrantDays : GrantPremium(u, days)

SpecInvites == InitInvites /\ [][NextInvites]_vars

\* no credential configured: the rotator called directly, and requests
InitNoKeys == InitWith({0})

NextNoKeys ==
    \/ GetNextKey
    \/ \E k \in Kinds, p \in Professions, f \in BOOLEAN, o \in FreeOrPremium, fb \in FileStates :
          RequestNoKeys(1, "u1", k, p, f, o, fb)

SpecNoKeys == InitNoKeys /\ [][NextNoKeys]_vars

\* premium requests for both kinds, one at a time, while the clock advances
InitClock == InitWith({MaxKeys})

NextClock ==
    \/ \E k \in Kinds, f \in BOOLEAN :
          \/ RequestCacheHit(1, "u1", k, "p1", f, "future", "ok")
          \/ RequestFetch(1, "u1", k, "p1", f, "future")
    \/ \E n \in BatchLens : ProducerReturns(1, n, "ok")
    \/ \E fb \in FileStates : ProducerRaises(1, fb)
    \/ \E d \in TickSteps : Tick(d)

SpecClock == InitClock /\ [][NextClock]_vars

\* a rotator on its own, called again and again
InitRotator ==
    /\ InitContent(KeyListsUpTo(MaxKeys + 1))
    /\ InitNewsWith({0}, {0})

NextRotator == GetNextKey

SpecRotator == InitRotator /\ [][NextRotator]_vars

\* news generation for one user, one request at a time, over minutes and days
InitNews ==
    /\ InitContent(KeyListsUpTo(1))
    /\ InitNewsWith({0, MAX_REQUESTS_PER_MINUTE - 1}, {0, BLOCK_AFTER - 1})

NextNews ==
    \/ \E feed \in Feeds, p \in NewsProfessions :
          \/ GenerateBlocked(feed, "u1", p)
          \/ GenerateRateLimited(feed, "u1", p)
          \/ GenerateNoKeys(feed, "u1", p)
          \/ GenerateStart(feed, "u1", p)
    \/ \E p \in NewsProfessions : GenerateInvalidProfession("u1", p)
    \/ \E news_items \in NewsListsUpTo(1), w \in SaveOutcomes :
          GenerateReturns(news_items, w)
    \/ GenerateRaises
    \/ NextDay

SpecNews == InitNews /\ [][NextNews]_vars

\* the dedup pass of both endpoints on every list the LLM answer may parse to
InitDedup ==
    /\ InitContent({SubSeq(AllKeys, 1, 1)})
    /\ InitNewsWith({0}, {0})

NextDedup ==
    \/ \E feed \in Feeds : GenerateStart(feed, "u1", "p1")
    \/ \E news_items \in NewsLists : GenerateReturns(news_items, "ok")

SpecDedup == InitDedup /\ [][NextDedup]_vars

(* ======================================================================== *)
(* Properties                                                                *)
(* ======================================================================== *)
Returned == done.seq > 0

\* done and done.prev are two requests of one free user for one kind, the
\* second started after the first returned, both made on the same day
FreePair ==
    /\ Returned
    /\ done.prev.seen
    /\ done.startSeq >= done.prev.seq
    /\ ~done.is_premium
    /\ ~done.prev.is_premium
    /\ done.day = done.prev.day

\* C1 as stated: a free user without a record for today makes two unforced
\* requests on one day; the second returns the items of the first and calls
\* the producer zero times.
C1_DailyStability ==
    (/\ FreePair
     /\ ~done.force_refresh
     /\ ~done.prev.force_refresh
     /\ done.prev.lockBefore = "absent")
    => (done.items = done.prev.items /\ done.calls = 0)

\* C2 as stated: a free user's forced request followed by an unforced one on
\* the same day: the second returns the items of the forced one.
C2_ForceRefreshLocks ==
    (/\ FreePair
     /\ done.prev.force_refresh
     /\ ~done.force_refresh)
    => done.items = done.prev.items

\* C3: a request resolved as premium never looks the daily record up and
\* never saves one, and the step that returns its response leaves every
\* daily record as it was.
C3_ReadsAndSaves ==
    /\ Returned /\ done.is_premium =>
          (done.lockSeen = "notread" /\ done.saved = "nosave")
    /\ \A s \in Slots :
          req[s].pc = "fetching" /\ req[s].is_premium => req[s].lockSeen = "notread"

C3_PremiumBypass ==
    /\ []C3_ReadsAndSaves
    /\ [][done'.seq # done.seq /\ done'.is_premium => user_daily' = user_daily]_vars

C3_Witness ==
    /\ Returned
    /\ done.is_premium
    /\ done.lockBefore = "ok"
    /\ done.source = "web_search"
    /\ done.prev.seen
    /\ done.prev.is_premium
    /\ done.prev.source = "cache"

\* C4 as stated: when the producer raises, the request ends with a normal
\* response marked as fallback (source "fallback") or as error (an error
\* field), whatever the state of the static fallback file; no exception
\* leaves the endpoint.
C4_FallbackOnFailure ==
    Returned /\ done.raised =>
        (done.outcome = "return" /\ (done.source = "fallback" \/ "error" \in done.fields))

Range(q) == {q[i] : i \in 1..Len(q)}
NoRepeats(q) == \A i, j \in 1..Len(q) : q[i] = q[j] => i = j
EntryItems(x) == IF CacheOf(x[1])[x[2]].present THEN CacheOf(x[1])[x[2]].items ELSE <<>>

\* C5: batches being fresh, no item is returned by two cache hits of a key,
\* and no item of a displayed slice is returned by a cache hit, under every
\* interleaving of the requests; the DISPLAY_COUNT items of one cache hit are
\* consecutive items of one batch, never a mixture of two restocks.
C5_NoDuplicateDelivery ==
    \A x \in CacheKeys :
        /\ NoRepeats(hist[x].gets)
        /\ Range(hist[x].gets) \cap Range(hist[x].shown) = {}
        /\ Len(hist[x].gets) % DISPLAY_COUNT = 0
        /\ \A j \in 1..(Len(hist[x].gets) - 1) :
              j % DISPLAY_COUNT # 0 =>
                  hist[x].gets[j + 1] = <<hist[x].gets[j][1], hist[x].gets[j][2] + 1>>

\* a cache hit is served while another request of the key is in flight
C5_Witness ==
    /\ Len(hist[<<"tools", "p1">>].gets) = DISPLAY_COUNT
    /\ Returned
    /\ done.source = "cache"
    /\ \E s \in Slots : req[s].pc = "fetching" /\ req[s].startSeq < done.startSeq

\* C6 as stated: everything passed to set is returned by the cache hits of
\* the key, in insertion order, or is still waiting in the entry.
C6_NothingDropped ==
    \A x \in CacheKeys : hist[x].sets = hist[x].gets \o EntryItems(x)

\* C6, amended: the cache hits since the last set of a key return, in
\* insertion order, a prefix of the sequence passed to that set, and the
\* entry holds the rest of it; every item a cache hit ever returned was
\* passed to a set before.
C6_PrefixOfLastSet ==
    \A x \in CacheKeys :
        /\ hist[x].last = hist[x].since \o EntryItems(x)
        /\ Range(hist[x].gets) \subseteq Range(hist[x].sets)
        /\ Len(hist[x].gets) <= Len(hist[x].sets)

C6_Witness ==
    /\ Len(hist[<<"tools", "p1">>].since) = DISPLAY_COUNT
    /\ Len(EntryItems(<<"tools", "p1">>)) > 0
    /\ Len(hist[<<"tools", "p1">>].seeds) = 2

Age == lastGet.at - lastGet.before.timestamp

\* C7: a get on an entry older than CACHE_TTL returns ([], TRUE) whatever
\* the number of items and leaves the entry as it was; an entry aged exactly
\* CACHE_TTL that holds DISPLAY_COUNT items or more is served.
C7_TTL ==
    lastGet.called /\ lastGet.before.present =>
        /\ Age > CACHE_TTL =>
              (lastGet.items = <<>> /\ lastGet.need_fetch /\ lastGet.after = lastGet.before)
        /\ Age = CACHE_TTL /\ Len(lastGet.before.items) >= DISPLAY_COUNT =>
              (~lastGet.need_fetch /\ Len(lastGet.items) = DISPLAY_COUNT)

C7_Witness ==
    /\ lastGet.called
    /\ lastGet.before.present
    /\ Age = CACHE_TTL + 1
    /\ Len(lastGet.before.items) >= DISPLAY_COUNT

\* C8: get returns ([], TRUE) exactly when there is no entry, the entry is
\* older than CACHE_TTL or it holds fewer than DISPLAY_COUNT items; otherwise
\* it returns the first DISPLAY_COUNT items and FALSE, and the entry keeps
\* the remaining items in order, its timestamp and its seed.
C8_GetContract ==
    lastGet.called =>
        LET b == lastGet.before
            miss == \/ ~b.present
                    \/ lastGet.at - b.timestamp > CACHE_TTL
                    \/ Len(b.items) < DISPLAY_COUNT
        IN  /\ lastGet.need_fetch <=> miss
            /\ miss => lastGet.items = <<>>
            /\ ~miss =>
                  /\ lastGet.items = [i \in 1..DISPLAY_COUNT |-> b.items[i]]
                  /\ lastGet.after.present
                  /\ lastGet.after.items =
                        [i \in 1..(Len(b.items) - DISPLAY_COUNT) |-> b.items[i + DISPLAY_COUNT]]
                  /\ lastGet.after.timestamp = b.timestamp
                  /\ lastGet.after.seed = b.seed

C8_Witness ==
    /\ lastGet.called
    /\ ~lastGet.need_fetch
    /\ Len(lastGet.after.items) = DISPLAY_COUNT
    /\ lastGet.at > lastGet.before.timestamp

\* C9 as stated: no cache entry ever holds more than FETCH_COUNT -
\* DISPLAY_COUNT items.
C9_CacheSize ==
    \A x \in CacheKeys : Len(EntryItems(x)) <= FETCH_COUNT - DISPLAY_COUNT

\* C10: with one request at a time, get_next_seed returns 0 for a key
\* without an entry and the stored seed plus one otherwise, the seeds
\* stored by the successive sets of a key are 0, 1, 2, ..., and the step
\* that calls get_next_seed changes no cache entry.
C10_SeedValues ==
    /\ \A s \in Slots : req[s].pc = "fetching" =>
          LET e == CacheOf(req[s].kind)[req[s].profession]
          IN  req[s].seed = IF e.present THEN e.seed + 1 ELSE 0
    /\ \A x \in CacheKeys : hist[x].seeds = [i \in 1..Len(hist[x].seeds) |-> i - 1]

C10_SeedSequence ==
    /\ []C10_SeedValues
    /\ [][\A s \in Slots : req[s].pc = "idle" /\ req'[s].pc = "fetching" =>
              tools_cache' = tools_cache /\ cases_cache' = cases_cache]_vars

C10_Witness ==
    hist[<<"tools", "p1">>].seeds = <<0, 1, 2>>

\* C11: a rotator holding N >= 1 credentials returns credential k mod N on
\* its k-th call (k from 0) and keeps its cursor in 0..N-1; when the N
\* credentials are distinct, 3N calls on a fresh rotator return each of
\* them exactly 3 times.
C11_RoundRobin ==
    Len(keys) >= 1 =>
        /\ \A k \in 0..(Len(issued) - 1) : issued[k + 1] = keys[(k % Len(keys)) + 1]
        /\ current_index \in 0..(Len(keys) - 1)
        /\ (NoRepeats(keys) /\ Len(issued) = 3 * Len(keys)) =>
              \A i \in 1..Len(keys) :
                  Cardinality({k \in 1..Len(issued) : issued[k] = keys[i]}) = 3

C11_Witness ==
    /\ Len(keys) = 3
    /\ NoRepeats(keys)
    /\ Len(issued) = 3 * Len(keys)
    /\ current_index = 0

\* the items of a list that no earlier item of the list shares its url with
FirstOccurrences(q) ==
    SelectSeq(q, LAMBDA item : \A j \in 1..(item.n - 1) : q[j].url # item.url)

\* C12 as stated: the dedup pass keeps exactly the items whose url no earlier
\* item of the batch has, in input order.
C12_DedupPass ==
    (news_done.seq > 0 /\ news_done.calls = 1 /\ news_done.source # "error") =>
        news_done.unique_items = FirstOccurrences(news_done.news_items)

\* C16 as stated: generate_daily_news starts no live fetch for a user who
\* has a stored record for the day, and such a call leaves the record as it
\* was.
C16_SameDayRecord ==
    /\ (news_req.pc = "fetching" /\ news_req.feed = "daily") =>
          news_req.recordBefore.state # "ok"
    /\ (news_done.seq > 0 /\ news_done.feed = "daily"
            /\ news_done.recordBefore.state = "ok") =>
          /\ news_done.calls = 0
          /\ user_news[<<news_done.user_id, news_done.day>>] = news_done.recordBefore

\* the record of the daily lock store for the day of the request that
\* returned last
DoneRecord == user_daily[<<done.user_id, done.kind, done.day>>]

\* the items of the batch of the live fetch that returned last which were
\* passed to set
DoneSurplus ==
    LET q == hist[<<done.kind, done.profession>>].sets
    IN  SelectSeq(q, LAMBDA item : Len(done.items) > 0 /\ item[1] = done.items[1][1])

\* C13 as stated: every response carries items, profession and a source tag
\* naming one of the five paths, and a live-fetch response carries
\* total_fetched, the number of items the producer returned.
C13_Envelope ==
    (Returned /\ done.outcome = "return") =>
        /\ {"items", "profession", "source"} \subseteq done.fields
        /\ done.source \in {"user_daily_cache", "cache", "web_search", "fallback", "error"}
        /\ done.source = "web_search" =>
              /\ "total_fetched" \in done.fields
              /\ done.total_fetched = Len(done.items) + Len(DoneSurplus)

\* C14 as stated: the request is premium exactly when the oracle returns a
\* record whose expires_at lies strictly after now; on every other answer
\* of the oracle, a raise included, the request is handled as a free user's
\* (the daily record is looked up unless the refresh is forced, and what a
\* cache hit or a live fetch shows is saved) and ends with a normal response.
C14_Entitlement ==
    /\ \A s \in Slots : req[s].pc = "fetching" =>
          (req[s].is_premium <=> req[s].oracle = "future")
    /\ Returned =>
          /\ done.is_premium <=> done.oracle = "future"
          /\ done.oracle # "future" =>
                /\ done.outcome = "return"
                /\ ~done.force_refresh => done.lockSeen # "notread"
                /\ done.source \in {"cache", "web_search"} => done.saved # "nosave"

\* C15 as stated: with no credential configured, get_next_key returns
\* without raising and leaves the cursor where it was; a request that reaches
\* the slow path starts no search, ends with a fallback or error response,
\* and writes no cache entry and no daily record.
C15_NoCredentials ==
    Len(keys) = 0 =>
        /\ \A i \in 1..Len(issued) : issued[i] = ""
        /\ current_index = 0
        /\ \A s \in Slots : req[s].pc = "idle"
        /\ fetched = 0
        /\ \A x \in CacheKeys : ~CacheOf(x[1])[x[2]].present
        /\ \A l \in LockKeys : user_daily[l] = NoRecord
        /\ Returned =>
              /\ done.outcome = "return"
              /\ done.source = "fallback" \/ "error" \in done.fields

\* C17 as stated: a free user's unforced request that finds a readable
\* record for the day returns the stored list through the daily-lock path,
\* calls the producer zero times and leaves the record as it was; no such
\* request is ever waiting for the producer.
C17_DailyLockShortCircuit ==
    /\ \A s \in Slots :
          ~(/\ req[s].pc = "fetching"
            /\ ~req[s].is_premium
            /\ ~req[s].force_refresh
            /\ req[s].lockRecord.state = "ok")
    /\ (/\ Returned
        /\ ~done.is_premium
        /\ ~done.force_refresh
        /\ done.lockRecord.state = "ok") =>
          /\ done.outcome = "return"
          /\ done.source = "user_daily_cache"
          /\ done.items = done.lockRecord.items
          /\ done.calls = 0
          /\ DoneRecord = done.lockRecord

\* C18 as stated: a forced request, free or premium, is never answered by
\* the daily lock or by a cache hit; it calls the producer exactly once and
\* ends with a live-fetch, fallback or error response.
C18_ForceRefreshBypass ==
    (Returned /\ done.force_refresh) =>
        /\ done.calls = 1
        /\ done.outcome = "return"
        /\ \/ done.source = "web_search"
           \/ done.source = "fallback"
           \/ "error" \in done.fields

\* C19: when a free user's request returns a cache hit or a live fetch and
\* the write of the daily record succeeded, the record for the user, the
\* kind and the day of the request holds exactly the list returned.
C19_LockEqualsShown ==
    (/\ Returned
     /\ ~done.is_premium
     /\ done.source \in {"cache", "web_search"}
     /\ done.saved = "ok") =>
        DoneRecord = [state |-> "ok", items |-> done.items]

\* a cache hit overwrites the record an earlier live fetch left
C19_Witness ==
    /\ Returned
    /\ ~done.is_premium
    /\ done.source = "cache"
    /\ done.saved = "ok"
    /\ done.lockRecord.state = "ok"
    /\ done.lockRecord.items # done.items
    /\ Len(done.items) = DISPLAY_COUNT

\* C20 as stated: after a live fetch the response is the first
\* DISPLAY_COUNT items of the batch and the entry of the key holds exactly
\* the rest of that batch, possibly nothing, with the seed of the fetch.
C20_RestockReplaces ==
    (Returned /\ done.source = "web_search") =>
        LET entry == CacheOf(done.kind)[done.profession]
            rest == done.total_fetched - Len(done.items)
        IN  /\ Len(done.items) <= DISPLAY_COUNT
            /\ rest > 0 => Len(done.items) = DISPLAY_COUNT
            /\ EntryItems(<<done.kind, done.profession>>) =
                  [i \in 1..rest |-> <<done.items[1][1], i + DISPLAY_COUNT>>]
            /\ entry.present => entry.seed = done.seed

\* C21 as stated: a producer call that completes with an empty list is
\* handled like a failure: no live-fetch response reports zero items and
\* no daily record holds an empty list.
C21_EmptyBatchIsFailure ==
    /\ (Returned /\ done.source = "web_search") => done.total_fetched > 0
    /\ \A l \in LockKeys : user_daily[l].state = "ok" => Len(user_daily[l].items) > 0

\* C22 as stated: with one request at a time, the seeds passed to the
\* successive producer calls of a key that returned a batch are 0, 1, 2, ...,
\* whatever the sizes of the batches.
C22_FreshSeeds ==
    \A x \in CacheKeys :
        hist[x].fetch_seeds = [i \in 1..Len(hist[x].fetch_seeds) |-> i - 1]

\* C23 as stated: under every interleaving of requests, the seed stored in
\* the entry of a key never decreases from one state to the next.
C23_StoredSeedNeverDecreases ==
    [][\A p \in Professions :
          /\ (tools_cache[p].present /\ tools_cache'[p].present) =>
                tools_cache'[p].seed >= tools_cache[p].seed
          /\ (cases_cache[p].present /\ cases_cache'[p].present) =>
                cases_cache'[p].seed >= cases_cache[p].seed]_vars

\* C24: with requests for tools and cases running concurrently on the one
\* rotator, the k-th get_next_key call returns credential k mod N and the
\* cursor counts the calls modulo N (no advance is lost); with N >= 2
\* distinct credentials two calls in a row never return the same one, so
\* two requests in flight whose calls were consecutive hold different
\* credentials.
C24_RotatorAtomicity ==
    Len(keys) >= 1 =>
        /\ \A k \in 0..(Len(issued) - 1) : issued[k + 1] = keys[(k % Len(keys)) + 1]
        /\ current_index = Len(issued) % Len(keys)
        /\ (Len(keys) >= 2 /\ NoRepeats(keys)) =>
              /\ \A i \in 1..(Len(issued) - 1) : issued[i] # issued[i + 1]
              /\ \A s, t \in Slots :
                    (/\ req[s].pc = "fetching"
                     /\ req[t].pc = "fetching"
                     /\ req[t].key_no = req[s].key_no + 1) =>
                        req[s].api_key # req[t].api_key
        /\ \A s \in Slots : req[s].pc = "fetching" => req[s].api_key = issued[req[s].key_no]

\* a tools request and a cases request in flight whose calls were consecutive
C24_Witness ==
    /\ Len(keys) >= 2
    /\ \E s, t \in Slots :
          /\ req[s].pc = "fetching"
          /\ req[t].pc = "fetching"
          /\ req[s].kind = "tools"
          /\ req[t].kind = "cases"
          /\ req[t].key_no = req[s].key_no + 1
          /\ req[s].key_no >= 2

\* done and done.prev are two unforced requests of one free user for one
\* kind on one day that overlapped in time and both found no record
RacingPair ==
    /\ Returned
    /\ done.prev.seen
    /\ done.startSeq < done.prev.seq
    /\ ~done.is_premium
    /\ ~done.prev.is_premium
    /\ ~done.force_refresh
    /\ ~done.prev.force_refresh
    /\ done.day = done.prev.day
    /\ done.lockBefore = "absent"
    /\ done.prev.lockBefore = "absent"

\* C25 as stated: two unforced first requests of the day of one free user
\* for one kind that run concurrently both complete normally, each calls the
\* producer at most once, and a readable record of the day holds the
\* complete list returned by one of the two, that of the last one that
\* wrote.
C25_RacingFirstRequests ==
    RacingPair =>
        /\ done.outcome = "return"
        /\ done.prev.outcome = "return"
        /\ done.calls <= 1
        /\ DoneRecord.state = "ok" =>
              /\ DoneRecord.items \in {done.items, done.prev.items}
              /\ done.saved = "ok" => DoneRecord.items = done.items
              /\ (done.saved # "ok" /\ done.prev.saved = "ok") =>
                    DoneRecord.items = done.prev.items

\* C26: the record a request consults is the one of its own day, so a free
\* user's unforced request on a day without a record is not answered from
\* the daily lock, whatever records earlier days left: it is a cache hit or
\* it calls the producer once. No step removes a record, and a request
\* changes at most the record of its own user, kind and day.
C26_DayRollover ==
    /\ [](Returned =>
            /\ done.lockRecord.state = done.lockBefore
            /\ (done.source = "user_daily_cache") => done.lockBefore = "ok"
            /\ (~done.is_premium /\ ~done.force_refresh /\ done.lockBefore = "absent") =>
                  /\ done.lockSeen = "absent"
                  /\ (done.source = "cache" /\ done.calls = 0) \/ done.calls = 1)
    /\ [][\A l \in LockKeys :
            /\ user_daily[l].state # "absent" => user_daily'[l].state # "absent"
            /\ user_daily'[l] # user_daily[l] =>
                  l = <<done'.user_id, done'.kind, done'.day>>]_vars

\* the first request of day 2 is served from the cache or by a live fetch
\* while the record of day 1 stays
C26_Witness ==
    /\ Returned
    /\ done.day = 2
    /\ today = 2
    /\ ~done.is_premium
    /\ ~done.force_refresh
    /\ done.lockBefore = "absent"
    /\ done.source \in {"cache", "web_search"}
    /\ done.saved = "ok"
    /\ user_daily[<<done.user_id, done.kind, 1>>].state = "ok"
    /\ Len(user_daily[<<done.user_id, done.kind, 1>>].items) > 0

\* a request enters the slow path in this step
StartsSlowPath == \E s \in Slots : req[s].pc = "idle" /\ req'[s].pc = "fetching"

\* a request whose producer call raised ends in this step
FailsNow == done'.seq # done.seq /\ done'.raised

\* C27: a request whose producer call raised made exactly one producer call,
\* and neither the step that takes a request into the slow path nor the step
\* in which the failure is handled changes an entry of the content cache or
\* a daily record; with one request at a time the entry of the key and the
\* records are therefore as before the request, and so is the next seed.
C27_FailedFetchFrame ==
    /\ []((Returned /\ done.raised) => done.calls = 1)
    /\ [][(StartsSlowPath \/ FailsNow) =>
            /\ tools_cache' = tools_cache
            /\ cases_cache' = cases_cache
            /\ user_daily' = user_daily
            /\ \A x \in CacheKeys : get_next_seed(x[1], x[2])' = get_next_seed(x[1], x[2])]_vars

\* a failed unforced fetch with an insufficient entry and a record in place
C27_Witness ==
    /\ Returned
    /\ done.raised
    /\ done.calls = 1
    /\ ~done.force_refresh
    /\ CacheOf(done.kind)[done.profession].present
    /\ Len(CacheOf(done.kind)[done.profession].items) > 0
    /\ get_next_seed(done.kind, done.profession) = done.seed
    /\ done.seed > 0
    /\ DoneRecord.state = "ok"

\* the request that ends in this step is the one for kind k and profession p
EndsFor(k, p) == done'.seq # done.seq /\ done'.kind = k /\ done'.profession = p

\* C28: a step changes the entry of a (kind, profession) key only when the
\* request that ends in it is for that kind and profession, and changes a
\* daily record only when that request is of the record's user and kind.
C28_KeyIsolation ==
    [][/\ \A p \in Professions :
            /\ tools_cache'[p] # tools_cache[p] => EndsFor("tools", p)
            /\ cases_cache'[p] # cases_cache[p] => EndsFor("cases", p)
       /\ \A l \in LockKeys :
            user_daily'[l] # user_daily[l] =>
                /\ done'.seq # done.seq
                /\ l = <<done'.user_id, done'.kind, done'.day>>]_vars

\* a cache hit on cases for a profession whose tools entry, and the entry
\* of the other profession, are in place, with a record of the other user
C28_Witness ==
    /\ Returned
    /\ done.source = "cache"
    /\ done.kind = "cases"
    /\ done.profession = "p1"
    /\ done.user_id = "u2"
    /\ DoneRecord.state = "ok"
    /\ \/ /\ tools_cache["p1"].present
          /\ Len(tools_cache["p1"].items) = FETCH_COUNT - DISPLAY_COUNT
          /\ user_daily[<<"u1", "tools", done.day>>].state = "ok"
       \/ /\ cases_cache["p2"].present
          /\ Len(cases_cache["p2"].items) = FETCH_COUNT - DISPLAY_COUNT
          /\ user_daily[<<"u1", "cases", done.day>>].state = "ok"
    /\ Len(cases_cache["p1"].items) = FETCH_COUNT - 2 * DISPLAY_COUNT

\* the accepted calls a[1..n], in the order they were made, respect both
\* limits: any MAX_REQUESTS_PER_MINUTE + 1 of them span a minute or more, any
\* MAX_REQUESTS_PER_HOUR + 1 of them an hour or more
WindowsOk(a) ==
    \A i \in 1..Len(a) :
        /\ i + MAX_REQUESTS_PER_MINUTE <= Len(a) =>
              a[i + MAX_REQUESTS_PER_MINUTE] - a[i] >= MINUTE
        /\ i + MAX_REQUESTS_PER_HOUR <= Len(a) =>
              a[i + MAX_REQUESTS_PER_HOUR] - a[i] >= HOUR

Count(q, x) == Cardinality({i \in 1..Len(q) : q[i] = x})

\* C29: for every user, no window shorter than a minute holds more than
\* MAX_REQUESTS_PER_MINUTE accepted check_rate_limit calls and no window
\* shorter than an hour more than MAX_REQUESTS_PER_HOUR; a rejected call adds
\* no timestamp, an accepted call adds exactly its own, and a call changes
\* the memory of its own user only and is decided by that memory alone.
C29_RateLimiter ==
    /\ [](\A u \in Users : WindowsOk(rate_accepted[u]))
    /\ [][rate_last'.n # rate_last.n =>
            LET u == rate_last'.user_id
            IN  /\ \A v \in Users \ {u} :
                      /\ request_counts'[v] = request_counts[v]
                      /\ rate_accepted'[v] = rate_accepted[v]
                /\ rate_last'.ok =
                      RateOk([w \in Users |-> IF w = u THEN request_counts[u] ELSE <<>>], u, now)
                /\ ~rate_last'.ok =>
                      /\ Count(request_counts'[u], now) = Count(request_counts[u], now)
                      /\ Len(request_counts'[u]) <= Len(request_counts[u])
                /\ rate_last'.ok =>
                      Count(request_counts'[u], now) = Count(request_counts[u], now) + 1]_vars

\* a call rejected by the hourly limit alone, while the other user has been
\* let through
C29_Witness ==
    /\ rate_last.n > 0
    /\ ~rate_last.ok
    /\ Len(request_counts[rate_last.user_id]) = MAX_REQUESTS_PER_HOUR
    /\ Len(RecentMinute(request_counts, rate_last.user_id, now)) < MAX_REQUESTS_PER_MINUTE
    /\ \E v \in Users \ {rate_last.user_id} : Len(rate_accepted[v]) > 0

\* total_reward_days of a user, 0 without a record
TotalRewardDays(users, u) == IF users[u].present THEN users[u].total_reward_days ELSE 0

\* C30 as stated: total_reward_days never exceeds MAX_REWARD_DAYS in a state
\* reached by use_invite_code and grant_premium; a successful use_invite_code
\* adds min(REWARD_DAYS, MAX_REWARD_DAYS - total_reward_days) days to the
\* owner of the code, and a rejected one changes neither store.
C30_RewardCap ==
    /\ [](\A u \in People : TotalRewardDays(users_premium, u) <= MAX_REWARD_DAYS)
    /\ [][(invite_last'.n # invite_last.n /\ invite_last'.op = "use") =>
            IF invite_last'.verdict = "ok"
            THEN LET o == invite_last'.user_id
                     before == TotalRewardDays(users_premium, o)
                 IN  TotalRewardDays(users_premium', o) =
                        before + (IF REWARD_DAYS <= MAX_REWARD_DAYS - before
                                  THEN REWARD_DAYS ELSE MAX_REWARD_DAYS - before)
            ELSE invites' = invites /\ users_premium' = users_premium]_vars

====
